---------------------------- MODULE Spec2Model ----------------------------
(***************************************************************************)
(* Model of decode_attributed_body (imsg-read.py), the decoder that        *)
(* recovers plain text from an NSAttributedString archive.                 *)
(*                                                                         *)
(* Bytes are numbers 0..255, characters are Unicode code points, byte      *)
(* strings and texts are sequences of them.  The decoder is modelled as a  *)
(* step machine (one action per statement group of the function) whose     *)
(* local variables live in a frame per call, and, beside it, as the        *)
(* composition of the same pure helpers.                                   *)
(***************************************************************************)
EXTENDS Integers, Sequences, FiniteSets, TLC

(***************************************************************************)
(* Generic sequence helpers.  None of them recurses per character: texts   *)
(* of a thousand characters are decoded.                                   *)
(***************************************************************************)
Min(S) == CHOOSE x \in S : \A y \in S : x <= y

Max(S) == CHOOSE x \in S : \A y \in S : y <= x

\* s[from:to] of Python for 0 <= from: characters from+1 .. to, clipped.
Slice(s, from, to) == SubSeq(s, from + 1, IF to < Len(s) THEN to ELSE Len(s))

\* s[n:]
Drop(s, n) == SubSeq(s, n + 1, Len(s))

\* the start positions (1-based) of the occurrences of t in s
Occurrences(s, t) ==
    { i \in 1..(Len(s) - Len(t) + 1) :
        /\ s[i] = t[1]
        /\ \A j \in 2..Len(t) : s[i + j - 1] = t[j] }

\* t in s
Contains(s, t) == Occurrences(s, t) # {}

\* s.find(t) as a 1-based position; 0 when t does not occur
Find(s, t) == IF Contains(s, t) THEN Min(Occurrences(s, t)) ELSE 0

\* s.startswith(t)
StartsWith(s, t) == Len(s) >= Len(t) /\ SubSeq(s, 1, Len(t)) = t

(***************************************************************************)
(* Character classes of Python's str methods and of re's \s, for the       *)
(* Latin-1 range, which is all that the blobs below decode to.             *)
(***************************************************************************)
\* str.isspace, the whitespace of str.split(), str.strip() and re's \s
IsSpace(c) == c \in (9..13) \cup (28..32) \cup {133, 160}

\* str.isprintable
IsPrintable(c) == c \in (32..126) \cup (161..172) \cup (174..255)

\* str.islower of one character
IsLower(c) == c \in (97..122) \cup {170, 181, 186} \cup (223..246) \cup (248..255)

\* str.isupper of one character
IsUpper(c) == c \in (65..90) \cup (192..214) \cup (216..222)

(***************************************************************************)
(* bytes.decode('utf-8', errors=...).  UTF-8 is self-synchronising: an     *)
(* error never swallows a lead byte or an ASCII byte, so whether a         *)
(* well-formed sequence starts at a position depends on the bytes from     *)
(* that position on only.                                                  *)
(***************************************************************************)
\* U+FFFD, what errors='replace' puts in place of an invalid sequence
Placeholder == 65533

IsContinuation(x) == x \in 128..191

\* the length of the sequence a lead byte announces; 0 for a byte that
\* leads nothing (a continuation byte, C0, C1, F5..FF)
Need(x) ==
    IF x < 128 THEN 1
    ELSE IF x \in 194..223 THEN 2
    ELSE IF x \in 224..239 THEN 3
    ELSE IF x \in 240..244 THEN 4
    ELSE 0

\* the range of the second byte (no overlong forms, no surrogates, at most
\* U+10FFFF)
SecondOk(x, y) ==
    /\ y >= (IF x = 224 THEN 160 ELSE IF x = 240 THEN 144 ELSE 128)
    /\ y <= (IF x = 237 THEN 159 ELSE IF x = 244 THEN 143 ELSE 191)

\* how many bytes the decoder takes at position k as one unit: a whole
\* well-formed sequence, or the maximal invalid prefix of one (at least 1)
Accepted(b, k) ==
    LET n == Need(b[k])
        Has(j) == k + j <= Len(b)
    IN  IF n < 2 \/ ~Has(1) \/ ~SecondOk(b[k], b[k + 1]) THEN 1
        ELSE IF n < 3 \/ ~Has(2) \/ ~IsContinuation(b[k + 2]) THEN 2
        ELSE IF n < 4 \/ ~Has(3) \/ ~IsContinuation(b[k + 3]) THEN 3
        ELSE 4

WellFormedAt(b, k) == Need(b[k]) > 0 /\ Accepted(b, k) = Need(b[k])

\* the code point of the well-formed sequence at k
CodePoint(b, k) ==
    LET n == Need(b[k])
    IN  IF n = 1 THEN b[k]
        ELSE IF n = 2 THEN (b[k] - 192) * 64 + (b[k + 1] - 128)
        ELSE IF n = 3 THEN (b[k] - 224) * 4096 + (b[k + 1] - 128) * 64
                           + (b[k + 2] - 128)
        ELSE (b[k] - 240) * 262144 + (b[k + 1] - 128) * 4096
             + (b[k + 2] - 128) * 64 + (b[k + 3] - 128)

\* position k starts a unit of the decoder: it is not inside the unit of a
\* lead byte at most 3 positions before it
UnitStart(b, k) ==
    ~ \E j \in 1..3 : /\ k - j >= 1
                      /\ ~IsContinuation(b[k - j])
                      /\ Accepted(b, k - j) > j

\* blob.decode('utf-8', errors='replace'): every invalid unit becomes one
\* placeholder.  Not what the decoder calls: a faulty variant of Utf8Ignore
Utf8Replace(b) ==
    LET ks == SelectSeq([k \in 1..Len(b) |-> k], LAMBDA k : UnitStart(b, k))
    IN  [n \in 1..Len(ks) |->
            IF WellFormedAt(b, ks[n]) THEN CodePoint(b, ks[n]) ELSE Placeholder]

\* blob.decode('utf-8', errors='ignore'): the code points of the well-formed
\* sequences, in order; the bytes of every invalid unit are dropped
Utf8Ignore(b) ==
    LET ks == SelectSeq([k \in 1..Len(b) |-> k], LAMBDA k : WellFormedAt(b, k))
    IN  [n \in 1..Len(ks) |-> CodePoint(b, ks[n])]

(***************************************************************************)
(* The literals of decode_attributed_body, as code points.                 *)
(***************************************************************************)
\* '+'
Plus == <<43>>

\* ' '
Space == <<32>>

\* the 1000 of text[idx+1:idx+1000]
RawEnd == 1000

\* 0x81, the variable-length marker
LongMarker == 129

\* codes below 128 are a single-byte length
ShortLimit == 128

\* cutoffs: '__kIM', 'NSNumber', 'NSValue', 'NSDictionary', '\x02', '\x86'
cutoffs ==
    << <<95, 95, 107, 73, 77>>,
       <<78, 83, 78, 117, 109, 98, 101, 114>>,
       <<78, 83, 86, 97, 108, 117, 101>>,
       <<78, 83, 68, 105, 99, 116, 105, 111, 110, 97, 114, 121>>,
       <<2>>,
       <<134>> >>

\* 'streamtyped'
Streamtyped == <<115, 116, 114, 101, 97, 109, 116, 121, 112, 101, 100>>

\* 'NSString'
NSString == <<78, 83, 83, 116, 114, 105, 110, 103>>

\* the markers cleaned out of a legacy segment: 'NSMutableString',
\* 'NSDictionary', 'NSNumber', 'NSValue', 'NSObject', 'NSData', 'i', 'I'
markers ==
    << <<78, 83, 77, 117, 116, 97, 98, 108, 101, 83, 116, 114, 105, 110, 103>>,
       <<78, 83, 68, 105, 99, 116, 105, 111, 110, 97, 114, 121>>,
       <<78, 83, 78, 117, 109, 98, 101, 114>>,
       <<78, 83, 86, 97, 108, 117, 101>>,
       <<78, 83, 79, 98, 106, 101, 99, 116>>,
       <<78, 83, 68, 97, 116, 97>>,
       <<105>>,
       <<73>> >>

\* 'http://' and 'https://' of the pattern https?://[^\s\x00]+
Http == <<104, 116, 116, 112, 58, 47, 47>>

Https == <<104, 116, 116, 112, 115, 58, 47, 47>>

\* the length a modern chunk must exceed
MinChunk == 3

\* the length a legacy segment must exceed
MinReadable == 10

\* the 500 of readable[:500]
MaxReadable == 500

(***************************************************************************)
(* Method 1: the '+' length prefix (lines 21-47).                          *)
(***************************************************************************)
\* raw = text[idx+1:idx+1000] with idx = text.find('+'), 0-based
RawRun(text) ==
    LET idx == Find(text, Plus) - 1
    IN  Slice(text, idx + 1, idx + RawEnd)

\* Payload with a 2-character skip after 0x81: a faulty variant
PayloadSkipTwo(raw) ==
    IF raw # <<>> /\ raw[1] = LongMarker
    THEN IF Len(raw) > 3 THEN Drop(raw, 2) ELSE <<>>
    ELSE IF raw # <<>> /\ raw[1] < ShortLimit THEN Drop(raw, 1)
    ELSE raw

\* patterns A and B: the chunk before the cutoffs
Payload(raw) ==
    IF raw # <<>> /\ raw[1] = LongMarker
    THEN IF Len(raw) > 3 THEN Drop(raw, 3) ELSE <<>>
    ELSE IF raw # <<>> /\ raw[1] < ShortLimit THEN Drop(raw, 1)
    ELSE raw

\* CutAt with rfind for find: a faulty variant
CutAtLast(chunk, cutoff) ==
    IF Contains(chunk, cutoff)
    THEN SubSeq(chunk, 1, Max(Occurrences(chunk, cutoff)) - 1)
    ELSE chunk

\* one turn of the cutoff loop
CutAt(chunk, cutoff) ==
    IF Contains(chunk, cutoff)
    THEN SubSeq(chunk, 1, Find(chunk, cutoff) - 1)
    ELSE chunk

\* the whole cutoff loop: the chunk after the first n cutoffs
RECURSIVE CutThrough(_, _)
CutThrough(chunk, n) ==
    IF n = 0 THEN chunk ELSE CutAt(CutThrough(chunk, n - 1), cutoffs[n])

\* Artifact without the length test of line 42: a faulty variant
ArtifactAnyLength(chunk) ==
    IF Len(chunk) >= 2 /\ IsLower(chunk[1]) /\ IsUpper(chunk[2])
    THEN Drop(chunk, 1)
    ELSE chunk

\* the leading lowercase letter before an uppercase one is an artifact
Artifact(chunk) ==
    IF Len(chunk) > 2 /\ IsLower(chunk[1]) /\ IsUpper(chunk[2])
    THEN Drop(chunk, 1)
    ELSE chunk

\* str.strip()
Strip(s) ==
    LET ks == { k \in 1..Len(s) : ~IsSpace(s[k]) }
    IN  IF ks = {} THEN <<>> ELSE SubSeq(s, Min(ks), Max(ks))

\* Accepts with >= for >: a faulty variant
AcceptsThreeOrMore(chunk) == Len(chunk) >= MinChunk

\* if len(chunk) > 3
Accepts(chunk) == Len(chunk) > MinChunk

(***************************************************************************)
(* Method 2: streamtyped (lines 50-69).                                    *)
(***************************************************************************)
\* s.split(sep)
RECURSIVE Split(_, _)
Split(s, sep) ==
    IF ~Contains(s, sep) THEN <<s>>
    ELSE LET i == Find(s, sep)
         IN  <<SubSeq(s, 1, i - 1)>> \o Split(Drop(s, i - 1 + Len(sep)), sep)

\* s.replace(old, ' ')
RECURSIVE Replace(_, _)
Replace(s, old) ==
    IF Len(old) = 1
    THEN [k \in 1..Len(s) |-> IF s[k] = old[1] THEN Space[1] ELSE s[k]]
    ELSE IF ~Contains(s, old) THEN s
    ELSE LET i == Find(s, old)
         IN  SubSeq(s, 1, i - 1) \o Space \o Replace(Drop(s, i - 1 + Len(old)), old)

\* the marker loop: s after the first n markers are replaced
RECURSIVE ReplaceThrough(_, _)
ReplaceThrough(s, n) ==
    IF n = 0 THEN s ELSE Replace(ReplaceThrough(s, n - 1), markers[n])

\* ' '.join(s.split()).strip(): the words of s, one space between them
Collapse(s) ==
    LET words == { k \in 1..Len(s) : ~IsSpace(s[k]) }
        last == IF words = {} THEN 0 ELSE Max(words)
        kept == SelectSeq([k \in 1..Len(s) |-> k],
                          LAMBDA k : \/ ~IsSpace(s[k])
                                     \/ k > 1 /\ ~IsSpace(s[k - 1]) /\ k < last)
    IN  [n \in 1..Len(kept) |->
            IF IsSpace(s[kept[n]]) THEN Space[1] ELSE s[kept[n]]]

\* s.replace(old, ''): the occurrences taken out and nothing put in
RECURSIVE Delete(_, _)
Delete(s, old) ==
    IF ~Contains(s, old) THEN s
    ELSE LET i == Find(s, old)
         IN  SubSeq(s, 1, i - 1) \o Delete(Drop(s, i - 1 + Len(old)), old)

RECURSIVE DeleteThrough(_, _)
DeleteThrough(s, n) ==
    IF n = 0 THEN s ELSE Delete(DeleteThrough(s, n - 1), markers[n])

\* Readable with replace(marker, '') for replace(marker, ' '): a faulty
\* variant
ReadableDeleting(part) ==
    Collapse(DeleteThrough(SelectSeq(part, IsPrintable), Len(markers)))

\* lines 58-62: the readable, cleaned form of one part
Readable(part) ==
    Collapse(ReplaceThrough(SelectSeq(part, IsPrintable), Len(markers)))

\* if len(readable) > 10 and not readable.startswith('+')
Qualifies(readable) ==
    Len(readable) > MinReadable /\ ~StartsWith(readable, Plus)

\* Clip without the slice: a faulty variant
ClipNothing(readable) == readable

\* readable[:500]
Clip(readable) == Slice(readable, 0, MaxReadable)

\* IsUrlChar with the class [^\s]: a faulty variant
IsUrlCharAllowNul(c) == ~IsSpace(c)

\* [^\s\x00]
IsUrlChar(c) == ~IsSpace(c) /\ c # 0

\* where https?:// followed by at least one [^\s\x00] matches in s
UrlStarts(s) ==
    { p \in 1..Len(s) :
        \/ StartsWith(Drop(s, p - 1), Http)
           /\ p + Len(Http) <= Len(s) /\ IsUrlChar(s[p + Len(Http)])
        \/ StartsWith(Drop(s, p - 1), Https)
           /\ p + Len(Https) <= Len(s) /\ IsUrlChar(s[p + Len(Https)]) }

\* the last position of the match that starts at p: [^\s\x00]+ is greedy
UrlEnd(s, p) ==
    LET stops == { q \in (p + Len(Http))..Len(s) : ~IsUrlChar(s[q]) }
    IN  IF stops = {} THEN Len(s) ELSE Min(stops) - 1

\* re.findall(r'https?://[^\s\x00]+', text): the matches from position
\* `from` on, leftmost first, not overlapping
RECURSIVE FindAllFrom(_, _)
FindAllFrom(s, from) ==
    LET starts == { p \in UrlStarts(s) : p >= from }
    IN  IF starts = {} THEN <<>>
        ELSE LET p == Min(starts)
             IN  <<SubSeq(s, p, UrlEnd(s, p))>> \o FindAllFrom(s, UrlEnd(s, p) + 1)

FindAll(s) == FindAllFrom(s, 1)


(***************************************************************************)
(* Whole-function composition of the helpers: what one call returns when   *)
(* it runs alone.  An argument is a record: None, a bytes object, or a str *)
(* (sqlite3 hands a TEXT value of the attributedBody column over as str).  *)
(***************************************************************************)
None == [kind |-> "none", data |-> <<>>]

Bytes(b) == [kind |-> "bytes", data |-> b]

Str(s) == [kind |-> "str", data |-> s]

\* Falsy as 'blob is None': a faulty variant
FalsyNoneOnly(arg) == arg.kind = "none"

\* not blob
Falsy(arg) == arg.kind = "none" \/ Len(arg.data) = 0

\* Method 1 on a view: the accepted chunk, or <<>> when it fails
Modern(text) ==
    IF ~Contains(text, Plus) THEN <<>>
    ELSE LET chunk == Strip(Artifact(CutThrough(Payload(RawRun(text)),
                                                Len(cutoffs))))
         IN  IF Accepts(chunk) THEN chunk ELSE <<>>

\* the first part after the header whose readable form qualifies, clipped;
\* <<>> when none does
FirstSegment(parts) ==
    LET ok == { n \in 2..Len(parts) : Qualifies(Readable(parts[n])) }
    IN  IF ok = {} THEN <<>> ELSE Clip(Readable(parts[Min(ok)]))

\* Method 2 on a view: the segment, else the first URL, else <<>>
Legacy(text) ==
    IF ~Contains(text, Streamtyped) THEN <<>>
    ELSE LET seg == FirstSegment(Split(text, NSString))
             urls == FindAll(text)
         IN  IF seg # <<>> THEN seg
             ELSE IF urls # <<>> THEN urls[1]
             ELSE <<>>

decode_attributed_body(arg) ==
    IF Falsy(arg) \/ arg.kind = "str" THEN <<>>
    ELSE LET text == Utf8Ignore(arg.data)
         IN  IF Modern(text) # <<>> THEN Modern(text) ELSE Legacy(text)


(***************************************************************************)
(* The arguments the calls are given.  Blobs are byte strings: the         *)
(* concatenations of at most MaxPieces pieces, and the blobs of the        *)
(* documented cases.                                                       *)
(***************************************************************************)
MaxPieces == 3

\* how far the long blobs run past the limits 999 and 500
LongPad == 2

\* concurrent calls of the batch
NumCalls == 2

Repeat(x, n) == [i \in 1..n |-> x]

\* b'\xc2\x81', U+0081
B81 == <<194, 129>>

\* b'\xc2\x86', U+0086
B86 == <<194, 134>>

\* b'\xc3\xa9', U+00E9, a lowercase letter above 127
BEacute == <<195, 169>>

\* b'\xff', never valid in UTF-8
BInvalid == <<255>>

\* b'\xe2\x82', a 3-byte sequence cut short
BTruncated == <<226, 130>>

Junk == <<106, 117, 110, 107>>

HiThere == <<72, 105, 32, 116, 104, 101, 114, 101>>

XHello == <<120, 72, 101, 108, 108, 111>>

HelloWorld == <<72, 101, 108, 108, 111, 32, 119, 111, 114, 108, 100>>

Meeting == <<77, 101, 101, 116, 105, 110, 103, 32, 105, 115, 32, 97, 116, 32, 110, 105, 110, 101>>

SpecSegment == <<90, 90, 90, 83, 111, 109, 101, 32, 109, 101, 115, 115, 97, 103, 101, 32, 116, 101, 120, 116, 32, 104, 101, 114, 101>>

ExampleUrl == <<104, 116, 116, 112, 115, 58, 47, 47, 101, 120, 97, 109, 112, 108, 101, 46, 99, 111, 109, 47, 120, 63, 121, 61, 49, 32>>

ShortUrl == <<104, 116, 116, 112, 115, 58, 47, 47, 97, 46, 105, 111, 47, 120, 32>>

NSNumber == cutoffs[2]

NSDictionary == cutoffs[4]

Pieces ==
    { Plus, B81, <<5>>, BInvalid, BEacute, XHello, <<32, 72, 105>>, NSNumber,
      Streamtyped, NSString, Meeting, ShortUrl }

RECURSIVE Joins(_)
Joins(n) ==
    IF n = 0 THEN { <<>> }
    ELSE Joins(n - 1) \cup { b \o p : b \in Joins(n - 1), p \in Pieces }

\* the blobs of the documented cases and of the limits
Examples ==
    { \* 0x81 prefix, cut at __kIM
      Junk \o Plus \o B81 \o <<0, 0>> \o HelloWorld \o cutoffs[1] \o <<101, 120, 116, 114, 97>>,
      \* single-byte length, cut at NSNumber
      Junk \o Plus \o <<5>> \o HiThere \o NSNumber \o <<116, 97, 105, 108>>,
      \* legacy segment
      <<4, 11>> \o Streamtyped \o <<129, 232, 3, 132, 1, 64>> \o NSString
          \o SpecSegment \o NSDictionary \o <<0>>,
      \* an archive as the Messages database stores it
      <<4, 11>> \o Streamtyped \o <<129, 232, 3, 132, 1, 64, 132, 132, 132, 8>>
          \o NSString \o <<1, 148, 132, 1>> \o Plus \o <<5>> \o <<72, 101, 108, 108, 111>>
          \o <<134, 132, 2, 105, 73, 1, 5, 146, 132, 132, 132, 12>>
          \o NSDictionary \o <<0>>,
      \* URL fallback
      Streamtyped \o <<32>> \o ExampleUrl,
      Streamtyped \o <<32>> \o Http \o <<32>> \o Https \o <<120, 0, 121>>,
      Streamtyped \o NSString \o <<72, 105>> \o <<32>> \o ShortUrl,
      \* a URL and no streamtyped
      Junk \o <<32>> \o ExampleUrl,
      \* modern accepted, legacy segment and URL in the view
      Streamtyped \o NSString \o Meeting \o <<32>> \o ShortUrl \o Plus
          \o <<5>> \o HiThere,
      \* the second and the third segment qualify, the first does not
      Streamtyped \o NSString \o <<72, 105>> \o NSString \o Meeting
          \o NSString \o SpecSegment,
      \* a segment that begins with '+'
      Streamtyped \o NSString \o Plus \o <<5>> \o NSNumber \o <<32>> \o Meeting,
      \* '+' last, a run of 3, markers inside markers, invalid bytes
      Junk \o Plus,
      Plus \o B81 \o <<97, 98>>,
      Plus \o B81 \o <<0, 0>> \o XHello,
      Plus \o <<5>> \o <<72, 101, 108, 108, 111>> \o <<32, 78, 83>> \o NSNumber \o <<78, 117>>,
      Plus \o BInvalid \o XHello,
      Plus \o BTruncated \o XHello,
      Plus \o <<194>> \o XHello,
      Plus \o <<5>> \o <<72, 101, 108, 108, 111>> \o B86 \o <<116, 97, 105, 108>>,
      Plus \o <<5, 120, 72>>,
      Plus \o <<5, 72, 101, 121>>,
      \* a first segment of exactly 10 characters
      Streamtyped \o NSString \o <<48, 49, 50, 51, 52, 53, 54, 55, 56, 57>>
          \o NSString \o Meeting,
      \* several cutoffs in one payload: a later one of the list first, one
      \* twice, all six in the reverse of the order of the list
      Plus \o <<5>> \o <<72, 101, 108, 108, 111>> \o <<2>> \o <<97, 98, 99>>
          \o cutoffs[1] \o <<101, 120, 116, 114, 97>>,
      Plus \o <<5>> \o <<72, 101, 108, 108, 111>> \o NSNumber \o <<97, 98>>
          \o NSNumber \o <<99, 100>>,
      Plus \o <<5>> \o <<72, 101, 108, 108, 111>> \o B86 \o <<2>> \o NSDictionary
          \o cutoffs[3] \o NSNumber \o cutoffs[1],
      \* a segment with a marker inside a marker, a control character, 'I'
      Streamtyped \o NSString \o <<78, 83>> \o markers[6] \o <<68, 97, 116, 97>>
          \o <<1>> \o <<73, 116, 32, 73, 115, 32>> \o Meeting,
      \* past the limits
      Plus \o BEacute \o Repeat(97, RawEnd + LongPad),
      Plus \o <<5>> \o Repeat(97, RawEnd + LongPad),
      Streamtyped \o NSString \o <<72, 105>> \o NSString
          \o Repeat(97, MaxReadable + LongPad) }

Blobs == Joins(MaxPieces) \cup Examples

\* what the single reader loop passes
Arguments ==
    { None } \cup { Bytes(b) : b \in Blobs } \cup { Str(<<>>), Str(HiThere) }

\* the rows of a batch decoded in parallel
BatchArguments ==
    { None, Str(HiThere),
      Bytes(Junk \o Plus \o <<5>> \o HiThere \o NSNumber \o <<116, 97, 105, 108>>),
      Bytes(Streamtyped \o NSString \o Meeting),
      Bytes(Streamtyped \o <<32>> \o ShortUrl),
      Bytes(Junk) }


(***************************************************************************)
(* The step machine.  pc is the position of each call in the function;     *)
(* blob is its argument and result what it returned; path is the set of    *)
(* positions it has executed.  text, raw, chunk, parts, readable and the   *)
(* loop positions ci, pi are the function's local variables, held in the   *)
(* frame of the call; prior is the chunk before the latest step of         *)
(* Method 1.                                                               *)
(***************************************************************************)
VARIABLES mode, pc, blob, result, exc, path,
          text, raw, chunk, prior, parts, readable, ci, pi

vars == << mode, pc, blob, result, exc, path,
           text, raw, chunk, prior, parts, readable, ci, pi >>

locals == << text, raw, chunk, prior, parts, readable, ci, pi >>

Calls == 1..NumCalls

\* the calls that run: one reader loop, or the whole batch
Active == IF mode = "single" THEN {1} ELSE Calls

\* no value yet
Pending == <<-1>>

\* Slot with the locals kept in one module-level frame: a faulty variant
SlotShared(c) == 1

\* the frame that holds the locals of call c: its own
Slot(c) == c

\* the bare except of line 72 catches whatever is raised
\* Catches with no handler in place: a faulty variant
CatchesNothing(e) == FALSE

Catches(e) == TRUE

At(c, where) == c \in Active /\ pc[c] = where

\* pc and path of call c after the step at its current position
Goto(c, next) ==
    /\ pc' = [pc EXCEPT ![c] = next]
    /\ path' = [path EXCEPT ![c] = @ \cup {pc[c]}]

Return(c, value) ==
    /\ result' = [result EXCEPT ![c] = value]
    /\ Goto(c, "done")

InitWith(m) ==
    /\ mode = m
    /\ pc = [c \in Calls |-> "idle"]
    /\ blob = [c \in Calls |-> None]
    /\ result = [c \in Calls |-> Pending]
    /\ exc = [c \in Calls |-> "none"]
    /\ path = [c \in Calls |-> {}]
    /\ text = [f \in Calls |-> <<>>]
    /\ raw = [f \in Calls |-> <<>>]
    /\ chunk = [f \in Calls |-> <<>>]
    /\ prior = [f \in Calls |-> <<>>]
    /\ parts = [f \in Calls |-> <<>>]
    /\ readable = [f \in Calls |-> <<>>]
    /\ ci = [f \in Calls |-> 1]
    /\ pi = [f \in Calls |-> 2]

Init == InitWith("single")

InitBatch == InitWith("batch")

\* lines 13-16: the call, and the return for a blob that is None or empty
Call(c) ==
    /\ At(c, "idle")
    /\ \E arg \in (IF mode = "single" THEN Arguments ELSE BatchArguments) :
         /\ blob' = [blob EXCEPT ![c] = arg]
         /\ IF Falsy(arg)
            THEN Return(c, <<>>)
            ELSE Goto(c, "decode") /\ UNCHANGED result
    /\ UNCHANGED << mode, exc, locals >>

\* line 18: the view; a str has no decode method
BuildView(c) ==
    /\ At(c, "decode")
    /\ IF blob[c].kind = "str"
       THEN /\ exc' = [exc EXCEPT ![c] = "AttributeError"]
            /\ Goto(c, "except")
            /\ UNCHANGED text
       ELSE /\ text' = [text EXCEPT ![Slot(c)] = Utf8Ignore(blob[c].data)]
            /\ Goto(c, "find")
            /\ UNCHANGED exc
    /\ UNCHANGED << mode, blob, result, raw, chunk, prior, parts, readable, ci, pi >>

\* lines 21-23
ModernFind(c) ==
    /\ At(c, "find")
    /\ IF Contains(text[Slot(c)], Plus)
       THEN /\ raw' = [raw EXCEPT ![Slot(c)] = RawRun(text[Slot(c)])]
            /\ Goto(c, "prefix")
       ELSE /\ Goto(c, "legacy")
            /\ UNCHANGED raw
    /\ UNCHANGED << mode, blob, result, exc, text, chunk, prior, parts, readable, ci, pi >>

\* lines 26-36
ModernPrefix(c) ==
    /\ At(c, "prefix")
    /\ chunk' = [chunk EXCEPT ![Slot(c)] = Payload(raw[Slot(c)])]
    /\ prior' = [prior EXCEPT ![Slot(c)] = raw[Slot(c)]]
    /\ ci' = [ci EXCEPT ![Slot(c)] = 1]
    /\ Goto(c, "cut")
    /\ UNCHANGED << mode, blob, result, exc, text, raw, parts, readable, pi >>

\* ModernCut with a break after the first cutoff found: a faulty variant
ModernCutBreak(c) ==
    /\ At(c, "cut")
    /\ LET f == Slot(c)
       IN  IF ci[f] > Len(cutoffs)
           THEN Goto(c, "artifact") /\ UNCHANGED << chunk, prior, ci >>
           ELSE /\ chunk' = [chunk EXCEPT ![f] = CutAt(chunk[f], cutoffs[ci[f]])]
                /\ prior' = [prior EXCEPT ![f] = chunk[f]]
                /\ ci' = [ci EXCEPT ![f] = @ + 1]
                /\ Goto(c, IF \/ ci[f] = Len(cutoffs)
                              \/ Contains(chunk[f], cutoffs[ci[f]])
                           THEN "artifact"
                           ELSE "cut")
    /\ UNCHANGED << mode, blob, result, exc, text, raw, parts, readable, pi >>

\* lines 37-39: one turn of the loop over cutoffs
ModernCut(c) ==
    /\ At(c, "cut")
    /\ LET f == Slot(c)
       IN  IF ci[f] > Len(cutoffs)
           THEN Goto(c, "artifact") /\ UNCHANGED << chunk, prior, ci >>
           ELSE /\ chunk' = [chunk EXCEPT ![f] = CutAt(chunk[f], cutoffs[ci[f]])]
                /\ prior' = [prior EXCEPT ![f] = chunk[f]]
                /\ ci' = [ci EXCEPT ![f] = @ + 1]
                /\ Goto(c, IF ci[f] = Len(cutoffs) THEN "artifact" ELSE "cut")
    /\ UNCHANGED << mode, blob, result, exc, text, raw, parts, readable, pi >>

\* lines 42-43
ModernArtifact(c) ==
    /\ At(c, "artifact")
    /\ chunk' = [chunk EXCEPT ![Slot(c)] = Artifact(chunk[Slot(c)])]
    /\ prior' = [prior EXCEPT ![Slot(c)] = chunk[Slot(c)]]
    /\ Goto(c, "accept")
    /\ UNCHANGED << mode, blob, result, exc, text, raw, parts, readable, ci, pi >>

\* ModernAccept without the return of line 47: a faulty variant
ModernAcceptNoReturn(c) ==
    /\ At(c, "accept")
    /\ chunk' = [chunk EXCEPT ![Slot(c)] = Strip(chunk[Slot(c)])]
    /\ prior' = [prior EXCEPT ![Slot(c)] = chunk[Slot(c)]]
    /\ Goto(c, "legacy")
    /\ UNCHANGED << mode, blob, result, exc, text, raw, parts, readable, ci, pi >>

\* lines 45-47
ModernAccept(c) ==
    /\ At(c, "accept")
    /\ LET stripped == Strip(chunk[Slot(c)])
       IN  /\ chunk' = [chunk EXCEPT ![Slot(c)] = stripped]
           /\ prior' = [prior EXCEPT ![Slot(c)] = chunk[Slot(c)]]
           /\ IF Accepts(stripped)
              THEN Return(c, stripped)
              ELSE Goto(c, "legacy") /\ UNCHANGED result
    /\ UNCHANGED << mode, blob, exc, text, raw, parts, readable, ci, pi >>

\* lines 50-55
LegacyCheck(c) ==
    /\ At(c, "legacy")
    /\ IF Contains(text[Slot(c)], Streamtyped)
       THEN LET ps == Split(text[Slot(c)], NSString)
            IN  /\ parts' = [parts EXCEPT ![Slot(c)] = ps]
                /\ pi' = [pi EXCEPT ![Slot(c)] = 2]
                /\ Goto(c, IF Len(ps) >= 2 THEN "segment" ELSE "url")
       ELSE /\ Goto(c, "empty")
            /\ UNCHANGED << parts, pi >>
    /\ UNCHANGED << mode, blob, result, exc, text, raw, chunk, prior, readable, ci >>

\* lines 56-64: one turn of the loop over parts[1:]
LegacySegment(c) ==
    /\ At(c, "segment")
    /\ LET f == Slot(c)
       IN  IF pi[f] > Len(parts[f])
           THEN Goto(c, "url") /\ UNCHANGED << result, readable, pi >>
           ELSE LET r == Readable(parts[f][pi[f]])
                IN  /\ readable' = [readable EXCEPT ![f] = r]
                    /\ IF Qualifies(r)
                       THEN Return(c, Clip(r)) /\ UNCHANGED pi
                       ELSE /\ pi' = [pi EXCEPT ![f] = @ + 1]
                            /\ Goto(c, IF pi[f] = Len(parts[f])
                                       THEN "url" ELSE "segment")
                            /\ UNCHANGED result
    /\ UNCHANGED << mode, blob, exc, text, raw, chunk, prior, parts, ci >>

\* lines 67-69
UrlFallback(c) ==
    /\ At(c, "url")
    /\ LET urls == FindAll(text[Slot(c)])
       IN  IF urls # <<>>
           THEN Return(c, urls[1])
           ELSE Goto(c, "empty") /\ UNCHANGED result
    /\ UNCHANGED << mode, blob, exc, locals >>

\* line 71
ReturnEmpty(c) ==
    /\ At(c, "empty")
    /\ Return(c, <<>>)
    /\ UNCHANGED << mode, blob, exc, locals >>

\* lines 72-73
Except(c) ==
    /\ At(c, "except")
    /\ IF Catches(exc[c])
       THEN Return(c, <<>>)
       ELSE Goto(c, "raised") /\ UNCHANGED result
    /\ UNCHANGED << mode, blob, exc, locals >>

\* the caller takes the result; the frame of the call is gone
Finish(c) ==
    /\ At(c, "done")
    /\ pc' = [pc EXCEPT ![c] = "idle"]
    /\ blob' = [blob EXCEPT ![c] = None]
    /\ result' = [result EXCEPT ![c] = Pending]
    /\ exc' = [exc EXCEPT ![c] = "none"]
    /\ path' = [path EXCEPT ![c] = {}]
    /\ text' = [text EXCEPT ![Slot(c)] = <<>>]
    /\ raw' = [raw EXCEPT ![Slot(c)] = <<>>]
    /\ chunk' = [chunk EXCEPT ![Slot(c)] = <<>>]
    /\ prior' = [prior EXCEPT ![Slot(c)] = <<>>]
    /\ parts' = [parts EXCEPT ![Slot(c)] = <<>>]
    /\ readable' = [readable EXCEPT ![Slot(c)] = <<>>]
    /\ ci' = [ci EXCEPT ![Slot(c)] = 1]
    /\ pi' = [pi EXCEPT ![Slot(c)] = 2]
    /\ UNCHANGED mode

Next ==
    \E c \in Calls :
        \/ Call(c)
        \/ BuildView(c)
        \/ ModernFind(c)
        \/ ModernPrefix(c)
        \/ ModernCut(c)
        \/ ModernArtifact(c)
        \/ ModernAccept(c)
        \/ LegacyCheck(c)
        \/ LegacySegment(c)
        \/ UrlFallback(c)
        \/ ReturnEmpty(c)
        \/ Except(c)
        \/ Finish(c)

\* one reader loop, as get_messages calls the decoder
Spec == Init /\ [][Next]_vars

\* a batch of rows decoded by concurrent calls
SpecBatch == InitBatch /\ [][Next]_vars


(***************************************************************************)
(* Properties.                                                             *)
(***************************************************************************)
Done(c) == pc[c] = "done"

\* the call got as far as building its view
ViewBuilt(c) == "decode" \in path[c] /\ blob[c].kind = "bytes"

\* which return statement a finished call left by
FromModern(c) == Done(c) /\ "accept" \in path[c] /\ "legacy" \notin path[c]

FromSegment(c) == Done(c) /\ "segment" \in path[c] /\ "url" \notin path[c]

FromUrl(c) == Done(c) /\ "url" \in path[c] /\ "empty" \notin path[c]

FromEmpty(c) == Done(c) /\ "empty" \in path[c]

IsText(r) == r # Pending /\ \A k \in 1..Len(r) : r[k] \in Nat

\* C1: whatever the argument (None, empty, a str, invalid bytes, truncated or
\* nested markers, a trailing '+'), no exception leaves the call and a
\* finished call holds a text; the call cannot run forever: no position is
\* executed twice except the two loop bodies, whose loops are bounded.
C1_NeverRaises ==
    \A c \in Calls :
        /\ pc[c] # "raised"
        /\ Done(c) => IsText(result[c])
        /\ pc[c] = "except" => exc[c] # "none"
        /\ pc[c] \in path[c] => pc[c] \in {"cut", "segment"}
        /\ ci[Slot(c)] <= Len(cutoffs) + 1
        /\ pi[Slot(c)] <= Len(parts[Slot(c)]) + 1 \/ parts[Slot(c)] = <<>>

\* a str argument: decode raised, the handler returned the empty text
C1_Witness ==
    \E c \in Calls :
        Done(c) /\ exc[c] = "AttributeError" /\ result[c] = <<>>

\* C2: the strategies are a short-circuiting chain: a chunk Method 1 accepts
\* is returned and Method 2 is not run, whatever the view holds; Method 2 runs
\* only when Method 1 failed; the result is empty exactly when both failed.
C2_ShortCircuit ==
    \A c \in Calls :
        (Done(c) /\ ViewBuilt(c)) =>
            LET f == Slot(c)
                accepted == "accept" \in path[c] /\ Len(chunk[f]) > 3
            IN  /\ accepted =>
                    /\ result[c] = chunk[f]
                    /\ path[c] \cap {"legacy", "segment", "url", "empty"} = {}
                /\ ~accepted <=> "legacy" \in path[c]
                /\ ~accepted => result[c] = Legacy(text[f])
                /\ result[c] = <<>> <=> FromEmpty(c)
                /\ FromEmpty(c) <=> (~accepted /\ Legacy(text[f]) = <<>>)

\* Method 1 returned although the view holds streamtyped, a qualifying
\* segment and a URL
C2_Witness ==
    \E c \in Calls :
        /\ FromModern(c)
        /\ Contains(text[Slot(c)], Streamtyped)
        /\ FirstSegment(Split(text[Slot(c)], NSString)) # <<>>
        /\ FindAll(text[Slot(c)]) # <<>>
        /\ result[c] = HiThere

\* C3: the raw run is the at most 999 characters after the first '+' of the
\* view; the payload is the run without its first 3 characters when it starts
\* with 0x81 (empty when the run has 3 or fewer), without its first character
\* when that is below 128, and the whole run otherwise; and
\* 'junk+\x05Hi thereNSNumbertail' decodes to 'Hi there'.
C3_Payload ==
    \A c \in Calls :
        LET f == Slot(c)
            t == text[f]
            r == raw[f]
            p == Min({ k \in 1..Len(t) : t[k] = 43 })
        IN  /\ (pc[c] = "cut" /\ ci[f] = 1) =>
                /\ r = SubSeq(t, p + 1, IF p + 999 < Len(t) THEN p + 999 ELSE Len(t))
                /\ chunk[f] =
                      IF r # <<>> /\ r[1] = 129
                      THEN IF Len(r) <= 3 THEN <<>> ELSE SubSeq(r, 4, Len(r))
                      ELSE IF r # <<>> /\ r[1] < 128 THEN Tail(r)
                      ELSE r
            /\ (Done(c) /\ blob[c] = Bytes(Junk \o Plus \o <<5>> \o HiThere
                                              \o NSNumber \o <<116, 97, 105, 108>>))
                   => result[c] = HiThere

\* the documented blob has been decoded to 'Hi there'
C3_Witness ==
    \E c \in Calls :
        /\ Done(c)
        /\ blob[c] = Bytes(Junk \o Plus \o <<5>> \o HiThere \o NSNumber
                               \o <<116, 97, 105, 108>>)
        /\ raw[Slot(c)][1] = 5
        /\ result[c] = HiThere


\* the parts after the header, before part n, whose readable form qualifies
EarlierQualifying(ps, n) ==
    { j \in 2..(n - 1) :
        LET r == Readable(ps[j]) IN Len(r) > 10 /\ r[1] # 43 }

\* C4 as stated: on the legacy path the text returned is the whole cleaned
\* form, whatever its length, of the first segment after the header whose
\* cleaned form is longer than 10 characters and does not begin with '+'.
C4_WholeSegment ==
    \A c \in Calls :
        FromSegment(c) =>
            LET f == Slot(c)
            IN  /\ parts[f] = Split(text[f], NSString)
                /\ readable[f] = Readable(parts[f][pi[f]])
                /\ Len(readable[f]) > 10 /\ readable[f][1] # 43
                /\ EarlierQualifying(parts[f], pi[f]) = {}
                /\ result[c] = readable[f]

\* C4, amended: the text returned is the first 500 characters of that cleaned
\* form (all of it when it has at most 500); Method 1 failed and streamtyped
\* occurs; no later segment is looked at; and the segment loop is left for
\* the URL search only when no segment qualifies.
C4_FirstSegmentClipped ==
    \A c \in Calls :
        LET f == Slot(c)
        IN  /\ FromSegment(c) =>
                /\ "legacy" \in path[c] /\ Contains(text[f], Streamtyped)
                /\ parts[f] = Split(text[f], NSString)
                /\ pi[f] \in 2..Len(parts[f])
                /\ readable[f] = Readable(parts[f][pi[f]])
                /\ Len(readable[f]) > 10 /\ readable[f][1] # 43
                /\ EarlierQualifying(parts[f], pi[f]) = {}
                /\ result[c] = SubSeq(readable[f], 1,
                       IF Len(readable[f]) > 500 THEN 500 ELSE Len(readable[f]))
            /\ (Done(c) /\ "url" \in path[c]) =>
                EarlierQualifying(parts[f], Len(parts[f]) + 1) = {}

\* a cleaned segment of more than 500 characters was returned cut to 500
\* after an earlier segment had been passed over
C4_Witness ==
    \E c \in Calls :
        /\ FromSegment(c)
        /\ Len(readable[Slot(c)]) > 500
        /\ Len(result[c]) = 500
        /\ pi[Slot(c)] = 3

\* the number of invalid units of a byte string
InvalidUnits(b) ==
    Cardinality({ k \in 1..Len(b) : UnitStart(b, k) /\ ~WellFormedAt(b, k) })

\* C5 as stated: the view holds a placeholder in place of every invalid byte
\* sequence of the blob, so an invalid byte right after '+' is the first
\* character of the run.
C5_Placeholders ==
    \A c \in Calls :
        ViewBuilt(c) =>
            LET t == text[Slot(c)]
            IN  Cardinality({ k \in 1..Len(t) : t[k] = Placeholder })
                    = InvalidUnits(blob[c].data)

\* C5, amended: invalid byte sequences are dropped, nothing stands in their
\* place: the view has one character per well-formed sequence of the blob and
\* no placeholder the blob does not encode, and the run after '+' is the
\* decoding of the bytes after the first '+' byte without the invalid ones (an
\* invalid byte right after '+' leaves the next well-formed character first).
C5_InvalidDropped ==
    \A c \in Calls :
        ViewBuilt(c) =>
            LET f == Slot(c)
                t == text[f]
                b == blob[c].data
                good == { k \in 1..Len(b) : WellFormedAt(b, k) }
                plus == Min({ k \in 1..Len(b) : b[k] = 43 })
                after == Utf8Ignore(SubSeq(b, plus + 1, Len(b)))
            IN  /\ Len(t) = Cardinality(good)
                /\ \A k \in 1..Len(t) :
                      t[k] = Placeholder =>
                          \E j \in good : CodePoint(b, j) = Placeholder
                /\ "find" \in path[c] /\ "prefix" \in path[c] =>
                      raw[f] = SubSeq(after, 1,
                                      IF Len(after) > 999 THEN 999 ELSE Len(after))

\* '+', an invalid byte, 'xHello': the run starts with 'x'
C5_Witness ==
    \E c \in Calls :
        /\ blob[c] = Bytes(Plus \o BInvalid \o XHello)
        /\ pc[c] = "cut"
        /\ InvalidUnits(blob[c].data) = 1
        /\ raw[Slot(c)] = XHello

\* C6: Method 1 returns its chunk exactly when the chunk, cut, corrected and
\* trimmed, is longer than 3 characters; otherwise Method 2 is run on the same
\* view before the empty text can be returned; so a result of Method 1 has 4
\* to 999 characters and no whitespace at either end.
C6_Threshold ==
    \A c \in Calls :
        LET f == Slot(c)
        IN  (Done(c) /\ "accept" \in path[c]) =>
                /\ chunk[f] = Strip(Artifact(CutThrough(Payload(raw[f]), 6)))
                /\ FromModern(c) <=> Len(chunk[f]) > 3
                /\ FromModern(c) =>
                      /\ result[c] = chunk[f]
                      /\ Len(result[c]) \in 4..999
                      /\ ~IsSpace(result[c][1])
                      /\ ~IsSpace(result[c][Len(result[c])])
                /\ ~FromModern(c) =>
                      /\ "legacy" \in path[c]
                      /\ text[f] = Utf8Ignore(blob[c].data)

\* a run of more than 999 characters gave a result of 999
C6_Witness ==
    \E c \in Calls :
        /\ FromModern(c)
        /\ Len(text[Slot(c)]) > 1000
        /\ Len(result[c]) = 999


\* neither whitespace nor NUL
UrlBody(x) == ~IsSpace(x) /\ x # 0

\* where 'http://' or 'https://' and at least one body character start in t
UrlCandidates(t) ==
    { p \in 1..Len(t) :
        \E scheme \in {Http, Https} :
            /\ p + Len(scheme) <= Len(t)
            /\ SubSeq(t, p, p + Len(scheme) - 1) = scheme
            /\ UrlBody(t[p + Len(scheme)]) }

\* C7: the URL search runs exactly when Method 1 failed, streamtyped occurs
\* and no segment qualifies (never without streamtyped); it returns, as it
\* stands in the view, the leftmost 'http://' or 'https://' with its one or
\* more following characters up to the next whitespace, NUL or the end of the
\* view; when there is none the result is empty.
C7_UrlFallback ==
    \A c \in Calls :
        (Done(c) /\ ViewBuilt(c)) =>
            LET f == Slot(c)
                t == text[f]
                p == Min(UrlCandidates(t))
                e == p + Len(result[c]) - 1
            IN  /\ "url" \in path[c] <=>
                      /\ "legacy" \in path[c]
                      /\ Contains(t, Streamtyped)
                      /\ EarlierQualifying(Split(t, NSString),
                                           Len(Split(t, NSString)) + 1) = {}
                /\ "url" \in path[c] =>
                      IF UrlCandidates(t) = {}
                      THEN FromEmpty(c) /\ result[c] = <<>>
                      ELSE /\ FromUrl(c)
                           /\ Len(result[c]) > 7 /\ e <= Len(t)
                           /\ result[c] = SubSeq(t, p, e)
                           /\ \A k \in (p + 7)..e : UrlBody(t[k])
                           /\ e = Len(t) \/ ~UrlBody(t[e + 1])

\* 'streamtyped http:// https://x\x00y': the first scheme has no body, the
\* match ends before the NUL
C7_Witness ==
    \E c \in Calls :
        /\ FromUrl(c)
        /\ result[c] = Https \o <<120>>
        /\ Contains(text[Slot(c)], Http)
        /\ Find(text[Slot(c)], Http) \notin UrlCandidates(text[Slot(c)])

\* C8: the correction runs once, on the chunk as the cutoffs left it and
\* before trimming: a chunk longer than 2 characters whose first character is
\* a lowercase letter and whose second is an uppercase letter loses exactly
\* its first character, any other chunk stays as it is; 'xHello' is accepted
\* as 'Hello'.
C8_Artifact ==
    \A c \in Calls :
        LET f == Slot(c)
            cut == CutThrough(Payload(raw[f]), 6)
            fixed == IF Len(cut) > 2 /\ IsLower(cut[1]) /\ IsUpper(cut[2])
                     THEN Tail(cut)
                     ELSE cut
        IN  /\ pc[c] = "accept" => prior[f] = cut /\ chunk[f] = fixed
            /\ (Done(c) /\ "accept" \in path[c]) =>
                  /\ prior[f] = fixed
                  /\ chunk[f] = Strip(fixed)
                  /\ cut = XHello => result[c] = Tail(XHello)

\* 'xHello' has just been corrected to 'Hello'
C8_Witness ==
    \E c \in Calls :
        /\ pc[c] = "accept"
        /\ prior[Slot(c)] = XHello
        /\ chunk[Slot(c)] = <<72, 101, 108, 108, 111>>

\* C9: calls share no state: under every interleaving of the calls of a
\* batch, a finished call holds what the function returns for its blob when
\* it runs alone, its view is the view of its own blob, and calls on the same
\* bytes return the same text.
C9_Isolated ==
    \A c \in Calls :
        /\ Done(c) => result[c] = decode_attributed_body(blob[c])
        /\ (ViewBuilt(c) /\ pc[c] # "idle") =>
              text[Slot(c)] = Utf8Ignore(blob[c].data)
        /\ \A d \in Calls :
              (Done(c) /\ Done(d) /\ blob[c] = blob[d]) => result[c] = result[d]

\* one call has returned 'Hi there' while another call, on another blob, is
\* in the middle of its segment loop
C9_Witness ==
    \E c, d \in Calls :
        /\ c # d
        /\ Done(c) /\ result[c] = HiThere
        /\ pc[d] = "segment" /\ blob[d] # blob[c]
        /\ text[Slot(c)] # text[Slot(d)]

\* C10: for None and for a blob of length zero the call returns the empty
\* text at once: no view is built, no strategy is run.
C10_EmptyAtOnce ==
    \A c \in Calls :
        (pc[c] # "idle" /\ (blob[c].kind = "none" \/ Len(blob[c].data) = 0)) =>
            /\ Done(c)
            /\ result[c] = <<>>
            /\ path[c] = {"idle"}
            /\ exc[c] = "none"
            /\ text[Slot(c)] = <<>> /\ raw[Slot(c)] = <<>>
            /\ chunk[Slot(c)] = <<>> /\ parts[Slot(c)] = <<>>

\* b'' has been given and the empty text returned
C10_Witness ==
    \E c \in Calls :
        Done(c) /\ blob[c] = Bytes(<<>>) /\ result[c] = <<>> /\ path[c] = {"idle"}

\* C11: the cutoff loop tests '__kIM', 'NSNumber', 'NSValue', 'NSDictionary',
\* 0x02, 0x86 in that order, each against the chunk the turns before it left:
\* after the k-th turn the chunk is a prefix of the chunk before the turn, cut
\* just before the first occurrence of the k-th token when that chunk holds
\* it and equal to it otherwise, and none of the first k tokens occurs in it;
\* after the sixth turn no token of the list occurs in the chunk.
C11_MarkerTruncation ==
    \A c \in Calls :
        LET f == Slot(c)
            tokens == << <<95, 95, 107, 73, 77>>,
                         <<78, 83, 78, 117, 109, 98, 101, 114>>,
                         <<78, 83, 86, 97, 108, 117, 101>>,
                         <<78, 83, 68, 105, 99, 116, 105, 111, 110, 97, 114, 121>>,
                         <<2>>,
                         <<134>> >>
            k == ci[f] - 1
            before == prior[f]
            after == chunk[f]
        IN  /\ pc[c] = "cut" => k \in 0..5
            /\ pc[c] = "artifact" =>
                  /\ k = 6
                  /\ \A j \in 1..6 : ~Contains(after, tokens[j])
            /\ (pc[c] \in {"cut", "artifact"} /\ k >= 1) =>
                  /\ Len(after) <= Len(before)
                  /\ after = SubSeq(before, 1, Len(after))
                  /\ IF Contains(before, tokens[k])
                     THEN /\ StartsWith(Drop(before, Len(after)), tokens[k])
                          /\ \A i \in Occurrences(before, tokens[k]) :
                                i > Len(after)
                     ELSE after = before
                  /\ \A j \in 1..k : ~Contains(after, tokens[j])

\* '__kIM' has cut 'Hello\x02abc__kIMextra' in the first turn and 0x02 has
\* just cut what that turn left, 'Hello\x02abc', to 'Hello'
C11_Witness ==
    \E c \in Calls :
        /\ pc[c] = "cut" /\ ci[Slot(c)] = 6
        /\ Payload(raw[Slot(c)]) = <<72, 101, 108, 108, 111, 2, 97, 98, 99>>
                \o <<95, 95, 107, 73, 77>> \o <<101, 120, 116, 114, 97>>
        /\ prior[Slot(c)] = <<72, 101, 108, 108, 111, 2, 97, 98, 99>>
        /\ chunk[Slot(c)] = <<72, 101, 108, 108, 111>>

\* C12: a text returned from a legacy segment holds no 'i', no 'I', no
\* 'NSMutableString', 'NSDictionary', 'NSNumber', 'NSValue', 'NSObject' or
\* 'NSData' and no non-printable character.  It is the start of the cleaned
\* segment, and the cleaned segment is the printable characters of the
\* segment with one space in place of every occurrence of one of the six
\* tokens and in place of every 'i' and 'I' left, whitespace then collapsed.
C12_CleanedSegment ==
    \A c \in Calls :
        FromSegment(c) =>
            LET f == Slot(c)
                r == result[c]
                tokens == { <<78, 83, 77, 117, 116, 97, 98, 108, 101, 83, 116, 114, 105, 110, 103>>,
                            <<78, 83, 68, 105, 99, 116, 105, 111, 110, 97, 114, 121>>,
                            <<78, 83, 78, 117, 109, 98, 101, 114>>,
                            <<78, 83, 86, 97, 108, 117, 101>>,
                            <<78, 83, 79, 98, 106, 101, 99, 116>>,
                            <<78, 83, 68, 97, 116, 97>> }
                seen == SelectSeq(parts[f][pi[f]], IsPrintable)
                starts == UNION { Occurrences(seen, t) : t \in tokens }
                inside == { k \in 1..Len(seen) :
                              \E t \in tokens : \E i \in Occurrences(seen, t) :
                                  i < k /\ k < i + Len(t) }
                left == SelectSeq([k \in 1..Len(seen) |-> k],
                                  LAMBDA k : k \notin inside)
                spaced == [n \in 1..Len(left) |->
                              IF left[n] \in starts \/ seen[left[n]] \in {105, 73}
                              THEN 32
                              ELSE seen[left[n]]]
            IN  /\ \A k \in 1..Len(r) : r[k] \notin {105, 73} /\ IsPrintable(r[k])
                /\ \A t \in tokens : ~Contains(r, t)
                /\ readable[f] = Collapse(spaced)
                /\ Len(r) <= Len(readable[f])
                /\ r = SubSeq(readable[f], 1, Len(r))

\* the segment 'NSNSDataData\x01It Is Meeting is at nine' has been returned
\* as 'NS Data t s Meet ng s at n ne'
C12_Witness ==
    \E c \in Calls :
        /\ FromSegment(c)
        /\ parts[Slot(c)][pi[Slot(c)]] =
              <<78, 83, 78, 83, 68, 97, 116, 97, 68, 97, 116, 97, 1>>
                  \o <<73, 116, 32, 73, 115, 32>> \o Meeting
        /\ result[c] = <<78, 83, 32, 68, 97, 116, 97, 32, 116, 32, 115, 32, 77,
                         101, 101, 116, 32, 110, 103, 32, 115, 32, 97, 116, 32,
                         110, 32, 110, 101>>

\* the cutoff loop with the cutoffs taken in another order
RECURSIVE CutInOrder(_, _, _)
CutInOrder(s, order, n) ==
    IF n = 0 THEN s
    ELSE CutAt(CutInOrder(s, order, n - 1), cutoffs[order[n]])

\* C13: what the cutoff loop leaves is the payload up to, and without, the
\* earliest occurrence in the payload of '__kIM', 'NSNumber', 'NSValue',
\* 'NSDictionary', 0x02 or 0x86, whichever token that is, and the whole
\* payload when none occurs; the loop leaves the same chunk when it takes the
\* six cutoffs in any other order.
C13_EarliestMarker ==
    \A c \in Calls :
        pc[c] = "artifact" =>
            LET f == Slot(c)
                payload == Payload(raw[f])
                tokens == { <<95, 95, 107, 73, 77>>,
                            <<78, 83, 78, 117, 109, 98, 101, 114>>,
                            <<78, 83, 86, 97, 108, 117, 101>>,
                            <<78, 83, 68, 105, 99, 116, 105, 111, 110, 97, 114, 121>>,
                            <<2>>,
                            <<134>> }
                hits == UNION { Occurrences(payload, t) : t \in tokens }
                earliest == IF hits = {} THEN payload
                            ELSE SubSeq(payload, 1, Min(hits) - 1)
            IN  /\ chunk[f] = earliest
                /\ \A order \in Permutations(1..6) :
                      CutInOrder(payload, order, 6) = chunk[f]

\* all six tokens stand in the payload, in the reverse of the order of the
\* list, and the loop has left the 'Hello' before the first of them
C13_Witness ==
    \E c \in Calls :
        /\ pc[c] = "artifact"
        /\ Payload(raw[Slot(c)]) =
              <<72, 101, 108, 108, 111, 134, 2>>
                  \o <<78, 83, 68, 105, 99, 116, 105, 111, 110, 97, 114, 121>>
                  \o <<78, 83, 86, 97, 108, 117, 101>>
                  \o <<78, 83, 78, 117, 109, 98, 101, 114>>
                  \o <<95, 95, 107, 73, 77>>
        /\ chunk[Slot(c)] = <<72, 101, 108, 108, 111>>


=============================================================================
